---------------------------- MODULE Spec2Model ----------------------------
(***************************************************************************)
(* git-commit-aider: the commit_staged tool handler of src/src/index.ts.   *)
(*                                                                         *)
(* One invocation of the CallToolRequestSchema handler is a chain of       *)
(* run-to-completion segments separated by its three awaits (the           *)
(* `git config user.name` query, the `git config user.email` query and     *)
(* the `git commit`).  Invocations of different requests interleave at     *)
(* those awaits.  Strings are TLC strings; JavaScript values that may be   *)
(* undefined, null or of another type are tagged records.                  *)
(* console.error diagnostics are output only and are not modelled.         *)
(***************************************************************************)
EXTENDS Integers, Sequences, FiniteSets, TLC

VARIABLES
    env,    \* process.env, the two variables the handler reads
    inv     \* inv[r]: the handler invocation of request r (its locals,
            \* its position, what it called and what it returned)

vars == <<env, inv>>

(***************************************************************************)
(* Bounds                                                                  *)
(***************************************************************************)
MaxReqs == 2

Reqs == 1..MaxReqs

(***************************************************************************)
(* JavaScript values                                                       *)
(***************************************************************************)
Undefined == [t |-> "undefined"]

Null == [t |-> "null"]

Str(s) == [t |-> "string", v |-> s]

Num(n) == [t |-> "number", v |-> n]

\* An arguments object; an absent property reads as undefined.
Obj(message, cwd) == [t |-> "object", message |-> message, cwd |-> cwd]

\* typeof: null is an "object".
TypeOf(x) == IF x.t = "null" THEN "object" ELSE x.t

\* ToBoolean, as used by `if (x)`, `x ? a : b` and `x || y`.
Truthy(x) ==
    CASE x.t = "string" -> x.v # ""
      [] x.t = "number" -> x.v # 0
      [] x.t = "object" -> TRUE
      [] OTHER -> FALSE

\* a || b
OrElse(a, b) == IF Truthy(a) THEN a ELSE b

\* obj.message / obj.cwd of an arbitrary value (undefined when not an object
\* carrying the property).
PropMessage(x) == IF x.t = "object" THEN x.message ELSE Undefined

PropCwd(x) == IF x.t = "object" THEN x.cwd ELSE Undefined

(***************************************************************************)
(* String.prototype.trim and String.prototype.includes                     *)
(***************************************************************************)
WhiteSpace == {" ", "\t", "\n", "\r"}

RECURSIVE TrimStart(_)
TrimStart(s) ==
    IF Len(s) > 0 /\ SubSeq(s, 1, 1) \in WhiteSpace
    THEN TrimStart(SubSeq(s, 2, Len(s)))
    ELSE s

RECURSIVE TrimEnd(_)
TrimEnd(s) ==
    IF Len(s) > 0 /\ SubSeq(s, Len(s), Len(s)) \in WhiteSpace
    THEN TrimEnd(SubSeq(s, 1, Len(s) - 1))
    ELSE s

\* (mutation: the output is used untrimmed)
TrimNothing(s) == s

Trim(s) == TrimEnd(TrimStart(s))

Includes(s, sub) ==
    \E i \in 1..(Len(s) - Len(sub) + 1) : SubSeq(s, i, i + Len(sub) - 1) = sub

(***************************************************************************)
(* isValidCommitArgs                                                       *)
(***************************************************************************)
\* (mutation: the type of cwd is not checked)
isValidCommitArgsMessageOnly(args) ==
    /\ TypeOf(args) = "object"
    /\ args # Null
    /\ TypeOf(PropMessage(args)) = "string"

\* (mutation: an empty message is not valid)
isValidCommitArgsNonEmpty(args) ==
    /\ TypeOf(args) = "object"
    /\ args # Null
    /\ TypeOf(PropMessage(args)) = "string"
    /\ PropMessage(args) # Str("")
    /\ (PropCwd(args) = Undefined \/ TypeOf(PropCwd(args)) = "string")

isValidCommitArgs(args) ==
    /\ TypeOf(args) = "object"
    /\ args # Null
    /\ TypeOf(PropMessage(args)) = "string"
    /\ (PropCwd(args) = Undefined \/ TypeOf(PropCwd(args)) = "string")

(***************************************************************************)
(* Errors.  An execa failure carries the captured streams, a short summary *)
(* and a long message; a plain Error carries only a message.  McpError is  *)
(* the SDK's error class: its constructor prefixes the message with the    *)
(* numeric JSON-RPC code of the ErrorCode enum.                            *)
(***************************************************************************)
ExecaError(stderr, stdout, shortMessage, message) ==
    [class |-> "ExecaError", stderr |-> Str(stderr), stdout |-> Str(stdout),
     shortMessage |-> Str(shortMessage), message |-> Str(message)]

JsError(message) ==
    [class |-> "Error", stderr |-> Undefined, stdout |-> Undefined,
     shortMessage |-> Undefined, message |-> Str(message)]

ErrorCode ==
    [MethodNotFound |-> "-32601", InvalidParams |-> "-32602",
     InternalError |-> "-32603"]

McpError(code, message) ==
    [class |-> "McpError", code |-> code, stderr |-> Undefined,
     stdout |-> Undefined, shortMessage |-> Undefined,
     message |-> Str("MCP error " \o ErrorCode[code] \o ": " \o message)]

(***************************************************************************)
(* The handler's locals                                                    *)
(***************************************************************************)
\* const { message, cwd } = request.params.arguments
message(st) == PropMessage(st.request.arguments).v

cwd(st) == PropCwd(st.request.arguments)

\* const executionOptions = cwd ? { cwd } : {}
\* (mutation: cwd is passed on whenever it is defined, empty or not)
executionOptionsIfDefined(st) ==
    IF cwd(st) # Undefined THEN [cwd |-> cwd(st)] ELSE [cwd |-> Undefined]

executionOptions(st) ==
    IF Truthy(cwd(st)) THEN [cwd |-> cwd(st)] ELSE [cwd |-> Undefined]

\* await execa('git', args, executionOptions): the call is issued and the
\* invocation suspends at `at` until the child process settles.
Execa(st, args, at) ==
    [st EXCEPT !.calls = Append(@, [file |-> "git", args |-> args,
                                    options |-> executionOptions(st)]),
               !.pc = at]

\* throw out of the handler: a protocol-level fault, no structured response
Throw(st, error) ==
    [st EXCEPT !.fault = Append(@, error), !.pc = "Rejected"]

\* return { content: [{ type: 'text', text }] }
SuccessResponse(text) == [content |-> <<[type |-> "text", text |-> text]>>]

\* return { content: [{ type: 'text', text }], isError }
Response(text, isError) ==
    [content |-> <<[type |-> "text", text |-> text]>>, isError |-> isError]

Return(st, response, at) ==
    [st EXCEPT !.response = Append(@, response), !.pc = at]

(***************************************************************************)
(* catch (error) of the outer try                                          *)
(***************************************************************************)
NothingToCommit == "nothing to commit, working tree clean"

NoChangesAdded == "no changes added to commit"

\* (mutation: the error's own message is not part of the chain)
errorMessageNoMessage(error) ==
    OrElse(OrElse(OrElse(error.stderr, error.stdout), error.shortMessage),
           Str("Unknown error during git commit.")).v

errorMessage(error) ==
    OrElse(OrElse(OrElse(OrElse(error.stderr, error.stdout),
                         error.shortMessage), error.message),
           Str("Unknown error during git commit.")).v

\* (mutation: only the first of the two phrases is recognised)
IsNoOpFirstPhrase(text) == Includes(text, NothingToCommit)

IsNoOp(text) == Includes(text, NothingToCommit) \/ Includes(text, NoChangesAdded)

McpErrorResponse(error) == Response(error.message.v, TRUE)

\* (mutation: a skipped commit is flagged as an error)
SkippedResponseAsError(text) == Response("Git commit skipped: " \o text, TRUE)

SkippedResponse(text) == Response("Git commit skipped: " \o text, FALSE)

FailedResponse(text) == Response("Git commit failed: " \o text, TRUE)

\* (mutation: the catch block classifies every error by its text, McpError
\* included)
CatchByText(st, error) ==
    IF IsNoOp(errorMessage(error))
    THEN Return(st, SkippedResponse(errorMessage(error)), "CommitSkipped")
    ELSE Return(st, FailedResponse(errorMessage(error)),
                IF error.class = "McpError" THEN "ResolutionFailed" ELSE "CommitFailed")

\* (mutation: the catch block rethrows what it caught)
CatchRethrown(st, error) == Throw(st, error)

Catch(st, error) ==
    IF error.class = "McpError"
    THEN Return(st, McpErrorResponse(error), "ResolutionFailed")
    ELSE IF IsNoOp(errorMessage(error))
         THEN Return(st, SkippedResponse(errorMessage(error)), "CommitSkipped")
         ELSE Return(st, FailedResponse(errorMessage(error)), "CommitFailed")

(***************************************************************************)
(* Commit: author string and the git commit invocation                     *)
(***************************************************************************)
aiderName(committerName) == committerName \o " (aider)"

\* (mutation: the blank between the marker and the address is dropped)
authorStringNoBlank(committerName, committerEmail) ==
    aiderName(committerName) \o "<" \o committerEmail \o ">"

authorString(committerName, committerEmail) ==
    aiderName(committerName) \o " <" \o committerEmail \o ">"

\* (mutation: the message is cut at its first blank, as a shell would split
\* an unquoted string)
CommitArgsFirstWord(msg, author) ==
    LET cut == IF \E i \in 1..Len(msg) : SubSeq(msg, i, i) = " "
               THEN (CHOOSE i \in 1..Len(msg) :
                        /\ SubSeq(msg, i, i) = " "
                        /\ \A j \in 1..(i - 1) : SubSeq(msg, j, j) # " ") - 1
               ELSE Len(msg)
    IN  <<"commit", "-m", SubSeq(msg, 1, cut), "--author=" \o author>>

CommitArgs(msg, author) == <<"commit", "-m", msg, "--author=" \o author>>

CommitStep(st) ==
    Execa(st,
          CommitArgs(message(st),
                     authorString(st.committerName.v, st.committerEmail.v)),
          "Committing")

\* (mutation: the stderr section is appended unconditionally)
SuccessTextWithStderr(stdout, stderr) ==
    "Commit successful:\n" \o stdout \o "\n" \o "Stderr:\n" \o stderr

SuccessText(stdout, stderr) ==
    "Commit successful:\n" \o stdout \o "\n"
        \o (IF stderr # "" THEN "Stderr:\n" \o stderr ELSE "")

\* (mutation: a failed commit is attempted a second time)
CommitReturnRetried(st, res) ==
    LET st1 == [st EXCEPT !.results = Append(@, res)]
    IN  IF res.ok
        THEN Return(st1, SuccessResponse(SuccessText(res.stdout, res.stderr)),
                    "CommitSucceeded")
        ELSE IF Len(st1.results) = Len(st1.calls) /\ Len(st1.calls) < 4
             THEN CommitStep(st1)
             ELSE Catch(st1, res.error)

CommitReturn(st, res) ==
    LET st1 == [st EXCEPT !.results = Append(@, res)]
    IN  IF res.ok
        THEN Return(st1, SuccessResponse(SuccessText(res.stdout, res.stderr)),
                    "CommitSucceeded")
        ELSE Catch(st1, res.error)

(***************************************************************************)
(* Committer email: environment first, git config as fallback              *)
(***************************************************************************)
configErrorMessage(configError, key) ==
    OrElse(OrElse(OrElse(OrElse(configError.stderr, configError.stdout),
                         configError.shortMessage), configError.message),
           Str("Unknown error getting git config " \o key \o ".")).v

EmailConfigError(configError) ==
    McpError("InternalError",
             "Failed to get git user.email: "
                 \o configErrorMessage(configError, "user.email")
                 \o ". Please ensure git user.email is configured or set the GIT_COMMITTER_EMAIL environment variable.")

\* (mutation: the override is used whenever the variable is defined, empty
\* or not)
EmailStepIfDefined(st) ==
    LET envEmail == env.GIT_COMMITTER_EMAIL
        st1 == [st EXCEPT !.envReads = @ \cup {"GIT_COMMITTER_EMAIL"}]
    IN  IF envEmail # Undefined
        THEN CommitStep([st1 EXCEPT !.committerEmail = envEmail])
        ELSE Execa(st1, <<"config", "user.email">>, "ResolvingEmail")

EmailStep(st) ==
    LET envEmail == env.GIT_COMMITTER_EMAIL
        st1 == [st EXCEPT !.envReads = @ \cup {"GIT_COMMITTER_EMAIL"}]
    IN  IF Truthy(envEmail)
        THEN CommitStep([st1 EXCEPT !.committerEmail = envEmail])
        ELSE Execa(st1, <<"config", "user.email">>, "ResolvingEmail")

\* (mutation: a failed query is swallowed and the commit goes ahead)
EmailReturnSwallowed(st, res) ==
    LET st1 == [st EXCEPT !.results = Append(@, res)]
    IN  IF res.ok
        THEN LET committerEmail == Trim(res.stdout)
                 st2 == [st1 EXCEPT !.committerEmail = Str(committerEmail)]
             IN  IF committerEmail = ""
                 THEN Catch(st2, EmailConfigError(JsError("Git user.email is empty.")))
                 ELSE CommitStep(st2)
        ELSE CommitStep([st1 EXCEPT !.committerEmail = Str("")])

EmailReturn(st, res) ==
    LET st1 == [st EXCEPT !.results = Append(@, res)]
    IN  IF res.ok
        THEN LET committerEmail == Trim(res.stdout)
                 st2 == [st1 EXCEPT !.committerEmail = Str(committerEmail)]
             IN  IF committerEmail = ""
                 THEN Catch(st2, EmailConfigError(JsError("Git user.email is empty.")))
                 ELSE CommitStep(st2)
        ELSE Catch(st1, EmailConfigError(res.error))

(***************************************************************************)
(* Committer name: environment first, git config as fallback               *)
(***************************************************************************)
NameConfigError(configError) ==
    McpError("InternalError",
             "Failed to get git user.name: "
                 \o configErrorMessage(configError, "user.name")
                 \o ". Please ensure git user.name is configured or set the GIT_COMMITTER_NAME environment variable.")

\* (mutation: the override is taken whenever the variable is defined, the
\* empty string included)
NameStepIfDefined(st) ==
    LET envName == env.GIT_COMMITTER_NAME
        st1 == [st EXCEPT !.envReads = @ \cup {"GIT_COMMITTER_NAME"}]
    IN  IF envName # Undefined
        THEN EmailStep([st1 EXCEPT !.committerName = envName])
        ELSE Execa(st1, <<"config", "user.name">>, "ResolvingName")

NameStep(st) ==
    LET envName == env.GIT_COMMITTER_NAME
        st1 == [st EXCEPT !.envReads = @ \cup {"GIT_COMMITTER_NAME"}]
    IN  IF Truthy(envName)
        THEN EmailStep([st1 EXCEPT !.committerName = envName])
        ELSE Execa(st1, <<"config", "user.name">>, "ResolvingName")

\* (mutation: a name that cannot be resolved is left empty and the handler
\* goes on to the email)
NameReturnSwallowed(st, res) ==
    LET st1 == [st EXCEPT !.results = Append(@, res)]
    IN  IF res.ok
        THEN EmailStep([st1 EXCEPT !.committerName = Str(Trim(res.stdout))])
        ELSE EmailStep([st1 EXCEPT !.committerName = Str("")])

NameReturn(st, res) ==
    LET st1 == [st EXCEPT !.results = Append(@, res)]
    IN  IF res.ok
        THEN LET committerName == Trim(res.stdout)
                 st2 == [st1 EXCEPT !.committerName = Str(committerName)]
             IN  IF committerName = ""
                 THEN Catch(st2, NameConfigError(JsError("Git user.name is empty.")))
                 ELSE EmailStep(st2)
        ELSE Catch(st1, NameConfigError(res.error))

(***************************************************************************)
(* Entry of the CallToolRequestSchema handler                              *)
(***************************************************************************)
CallTool(st, request) ==
    LET st1 == [st EXCEPT !.request = request]
    IN  IF request.name # "commit_staged"
        THEN Throw(st1, McpError("MethodNotFound",
                                 "Unknown tool: " \o request.name))
        ELSE IF ~isValidCommitArgs(request.arguments)
             THEN Throw(st1, McpError("InvalidParams",
                        "Invalid arguments for commit_staged. Requires \"message\" (string) and optional \"cwd\" (string)."))
             ELSE NameStep(st1)

(***************************************************************************)
(* Inputs: the requests a client may send, the environment the process may *)
(* be started with, and the ways each git child process may settle.        *)
(***************************************************************************)
ArgumentValues ==
    { Undefined, Null, Str("fix bug"),
      Obj(Undefined, Undefined), Obj(Num(1), Undefined),
      Obj(Str("fix bug"), Num(1)), Obj(Str("fix bug"), Null),
      Obj(Str("fix bug"), Undefined), Obj(Str("fix bug"), Str("/repo")),
      Obj(Str(""), Str("")) }

Requests ==
    {[name |-> "commit_staged", arguments |-> a] : a \in ArgumentValues}
        \cup {[name |-> "other_tool", arguments |-> Obj(Str("fix bug"), Undefined)]}

EnvNames == {Undefined, Str(""), Str("Ada")}

EnvEmails == {Undefined, Str(""), Str("ada@x.io")}

Resolved(stdout, stderr) == [ok |-> TRUE, stdout |-> stdout, stderr |-> stderr]

Rejected(error) == [ok |-> FALSE, error |-> error]

\* `git config <key>`: a value (git prints it as stored, surrounding blanks
\* included), a blank value, an unset key (exit 1, nothing printed), or a
\* failure with diagnostic text.
ConfigResults(key, value) ==
    { Resolved(value, ""),
      Resolved(" \t", ""),
      Rejected(ExecaError("", "",
                          "Command failed with exit code 1: git config " \o key,
                          "Command failed with exit code 1: git config " \o key)),
      Rejected(ExecaError("fatal: nothing to commit, working tree clean", "",
                          "Command failed with exit code 128: git config " \o key,
                          "Command failed with exit code 128: git config " \o key)) }

NameResults == ConfigResults("user.name", " Bob Lee\t")

EmailResults == ConfigResults("user.email", "\tbob@x.io ")

CommitFailedSummary == "Command failed with exit code 1: git commit"

CommitResults ==
    { Resolved("[main 1a2b3c4] fix bug", ""),
      Resolved("[main 1a2b3c4] fix bug", "warning: LF will be replaced by CRLF"),
      Rejected(ExecaError("", "On branch main\nnothing to commit, working tree clean",
                          CommitFailedSummary, CommitFailedSummary)),
      Rejected(ExecaError("nothing to commit, working tree clean", "",
                          CommitFailedSummary, CommitFailedSummary)),
      Rejected(ExecaError("Changes not staged:\nno changes added to commit (use \"git add\")",
                          "", CommitFailedSummary, CommitFailedSummary)),
      Rejected(ExecaError("warning: unable to access config",
                          "On branch main\nnothing to commit, working tree clean",
                          CommitFailedSummary, CommitFailedSummary)),
      Rejected(ExecaError("", "pre-commit hook: lint failed",
                          CommitFailedSummary, CommitFailedSummary)),
      Rejected(ExecaError("", "", CommitFailedSummary, CommitFailedSummary)),
      Rejected(ExecaError("", "",
                          "Command failed with ENOENT: git commit -m no changes added to commit",
                          "Command failed with ENOENT: git commit -m no changes added to commit")),
      Rejected(JsError("spawn git ENOENT")),
      Rejected(JsError("")) }

(***************************************************************************)
(* State machine                                                           *)
(***************************************************************************)
NoRequest == [name |-> "", arguments |-> Undefined]

Start ==
    [pc |-> "Start", request |-> NoRequest,
     committerName |-> Undefined, committerEmail |-> Undefined,
     envReads |-> {}, calls |-> <<>>, results |-> <<>>,
     response |-> <<>>, fault |-> <<>>]

Init ==
    /\ env \in [GIT_COMMITTER_NAME : EnvNames, GIT_COMMITTER_EMAIL : EnvEmails]
    /\ inv = [r \in Reqs |-> Start]

\* The protocol layer delivers request r to the handler, which runs up to
\* its first await (or to its throw).  Requests are delivered in order.
HandleCallTool(r) ==
    /\ inv[r].pc = "Start"
    /\ \A q \in Reqs : q < r => inv[q].pc # "Start"
    /\ \E request \in Requests : inv' = [inv EXCEPT ![r] = CallTool(@, request)]
    /\ UNCHANGED env

\* `git config user.name` settles and the handler resumes.
\* (mutation: the name read from git config is cached in process.env)
NameQuerySettlesCaching(r) ==
    /\ inv[r].pc = "ResolvingName"
    /\ \E res \in NameResults :
        /\ inv' = [inv EXCEPT ![r] = NameReturn(@, res)]
        /\ env' = IF inv'[r].pc # "ResolutionFailed"
                  THEN [env EXCEPT !.GIT_COMMITTER_NAME = inv'[r].committerName]
                  ELSE env

NameQuerySettles(r) ==
    /\ inv[r].pc = "ResolvingName"
    /\ \E res \in NameResults : inv' = [inv EXCEPT ![r] = NameReturn(@, res)]
    /\ UNCHANGED env

\* `git config user.email` settles and the handler resumes.
\* (mutation: message and cwd live in variables of the module, which the
\* last request that passed validation has overwritten)
EmailQuerySettlesShared(r) ==
    /\ inv[r].pc = "ResolvingEmail"
    /\ \E res \in EmailResults :
        LET last == CHOOSE q \in Reqs :
                        /\ inv[q].pc \notin {"Start", "Rejected"}
                        /\ \A p \in Reqs :
                               p > q => inv[p].pc \in {"Start", "Rejected"}
        IN  inv' = [inv EXCEPT ![r] =
                        [EmailReturn([@ EXCEPT !.request = inv[last].request], res)
                            EXCEPT !.request = inv[r].request]]
    /\ UNCHANGED env

EmailQuerySettles(r) ==
    /\ inv[r].pc = "ResolvingEmail"
    /\ \E res \in EmailResults : inv' = [inv EXCEPT ![r] = EmailReturn(@, res)]
    /\ UNCHANGED env

\* `git commit` settles and the handler resumes.
\* (mutation: requests are worked off one at a time, a commit is taken up
\* again only when every request delivered before it has ended)
CommitSettlesInTurn(r) ==
    /\ inv[r].pc = "Committing"
    /\ \A q \in Reqs :
           q < r => inv[q].pc \in {"Rejected", "ResolutionFailed", "CommitSucceeded",
                                   "CommitSkipped", "CommitFailed"}
    /\ \E res \in CommitResults : inv' = [inv EXCEPT ![r] = CommitReturn(@, res)]
    /\ UNCHANGED env

CommitSettles(r) ==
    /\ inv[r].pc = "Committing"
    /\ \E res \in CommitResults : inv' = [inv EXCEPT ![r] = CommitReturn(@, res)]
    /\ UNCHANGED env

Next ==
    \E r \in Reqs :
        \/ HandleCallTool(r)
        \/ NameQuerySettles(r)
        \/ EmailQuerySettles(r)
        \/ CommitSettles(r)

Spec == Init /\ [][Next]_vars

\* Every child process the handler awaits exits or fails to start, and the
\* event loop then resumes the handler that awaits it.
FairSpec ==
    /\ Spec
    /\ \A r \in Reqs :
        /\ WF_vars(NameQuerySettles(r))
        /\ WF_vars(EmailQuerySettles(r))
        /\ WF_vars(CommitSettles(r))

(***************************************************************************)
(* An invocation that never returns.  The handler sets no timeout on its   *)
(* execa calls, so a child process that never exits leaves the invocation  *)
(* of its request suspended at that await for good.                        *)
(***************************************************************************)
Awaiting == {"ResolvingName", "ResolvingEmail", "Committing"}

HungAt(pc) == pc \o "Hung"

\* The child process request r awaits turns out never to exit.
InvocationHangs(r) ==
    /\ inv[r].pc \in Awaiting
    /\ inv' = [inv EXCEPT ![r].pc = HungAt(@)]
    /\ UNCHANGED env

HangNext ==
    \/ Next
    \/ \E r \in Reqs : InvocationHangs(r)

\* Every child process that exits has the handler awaiting it resumed.
HangSpec ==
    /\ Init /\ [][HangNext]_vars
    /\ \A r \in Reqs :
        /\ WF_vars(NameQuerySettles(r))
        /\ WF_vars(EmailQuerySettles(r))
        /\ WF_vars(CommitSettles(r))

(***************************************************************************)
(* Vocabulary of the properties                                            *)
(***************************************************************************)
StartsWith(s, p) == Len(s) >= Len(p) /\ SubSeq(s, 1, Len(p)) = p

EndsWith(s, p) == Len(s) >= Len(p) /\ SubSeq(s, Len(s) - Len(p) + 1, Len(s)) = p

AllBlank(s) == \A k \in 1..Len(s) : SubSeq(s, k, k) \in WhiteSpace

\* t is s without its surrounding white space, and nothing else changed
IsTrimOf(t, s) ==
    /\ t # "" => /\ SubSeq(t, 1, 1) \notin WhiteSpace
                 /\ SubSeq(t, Len(t), Len(t)) \notin WhiteSpace
    /\ \E i \in 1..(Len(s) - Len(t) + 1) :
        /\ t = SubSeq(s, i, i + Len(t) - 1)
        /\ AllBlank(SubSeq(s, 1, i - 1))
        /\ AllBlank(SubSeq(s, i + Len(t), Len(s)))

NameQuery == <<"config", "user.name">>

EmailQuery == <<"config", "user.email">>

IsCommit(call) == call.args[1] = "commit"

\* positions in the call log of request r
CallsOf(r, args) == {i \in DOMAIN inv[r].calls : inv[r].calls[i].args = args}

CommitCallsOf(r) == {i \in DOMAIN inv[r].calls : IsCommit(inv[r].calls[i])}

Invoked(r, args) == CallsOf(r, args) # {}

\* the invocation `args` of request r has settled with result res
SettledWith(r, args, res) ==
    \E i \in CallsOf(r, args) : i <= Len(inv[r].results) /\ inv[r].results[i] = res

CommitSettledWith(r, res) ==
    \E i \in CommitCallsOf(r) : i <= Len(inv[r].results) /\ inv[r].results[i] = res

\* the request passed the tool-name and argument checks
Handled(r) == inv[r].pc \notin {"Start", "Rejected"}

Terminal == {"Rejected", "ResolutionFailed", "CommitSucceeded", "CommitSkipped", "CommitFailed"}

EnvSet(var) == env[var].t = "string" /\ env[var].v # ""

\* the value a field resolves to, from the inputs of request r
ResolvesTo(r, var, query, value) ==
    IF EnvSet(var)
    THEN value = env[var].v
    ELSE \E i \in CallsOf(r, query) :
            /\ i <= Len(inv[r].results)
            /\ inv[r].results[i].ok
            /\ value # ""
            /\ IsTrimOf(value, inv[r].results[i].stdout)

NameResolvesTo(r, value) == ResolvesTo(r, "GIT_COMMITTER_NAME", NameQuery, value)

EmailResolvesTo(r, value) == ResolvesTo(r, "GIT_COMMITTER_EMAIL", EmailQuery, value)

NameResolved(r) ==
    \/ EnvSet("GIT_COMMITTER_NAME")
    \/ \E i \in CallsOf(r, NameQuery) :
        /\ i <= Len(inv[r].results)
        /\ inv[r].results[i].ok
        /\ ~AllBlank(inv[r].results[i].stdout)

EmailResolved(r) ==
    \/ EnvSet("GIT_COMMITTER_EMAIL")
    \/ \E i \in CallsOf(r, EmailQuery) :
        /\ i <= Len(inv[r].results)
        /\ inv[r].results[i].ok
        /\ ~AllBlank(inv[r].results[i].stdout)

\* the values a field of request r can have resolved to: the override, or a
\* part of the output of its settled query
Candidates(r, var, query) ==
    IF EnvSet(var)
    THEN {env[var].v}
    ELSE UNION { LET out == inv[r].results[i].stdout
                 IN  {SubSeq(out, a, b) : a \in 1..Len(out), b \in 1..Len(out)}
                 : i \in {k \in CallsOf(r, query) :
                            k <= Len(inv[r].results) /\ inv[r].results[k].ok} }

ResponseOf(r) == inv[r].response[1]

TextOf(r) == ResponseOf(r).content[1].text

HasIsError(r) == "isError" \in DOMAIN ResponseOf(r)

Success(r) == inv[r].pc = "CommitSucceeded"

Skipped(r) == inv[r].pc = "CommitSkipped"

Failed(r) == inv[r].pc \in {"ResolutionFailed", "CommitFailed"}

(***************************************************************************)
(* C1                                                                      *)
(***************************************************************************)
\* C1: whenever both identity fields of a handled request resolve (each to
\* its environment value, or to the trimmed output of its config query), git
\* commit is invoked with --author= exactly name, " (aider) <", email, ">".
C1_AuthorOverride ==
    \A r \in Reqs :
        (Handled(r) /\ NameResolved(r) /\ EmailResolved(r)) =>
            /\ CommitCallsOf(r) # {}
            /\ \A i \in CommitCallsOf(r) :
                \E name \in Candidates(r, "GIT_COMMITTER_NAME", NameQuery) :
                    /\ NameResolvesTo(r, name)
                    /\ \E email \in Candidates(r, "GIT_COMMITTER_EMAIL", EmailQuery) :
                        /\ EmailResolvesTo(r, email)
                        /\ inv[r].calls[i].args[4]
                            = "--author=" \o name \o " (aider) <" \o email \o ">"

\* a commit was invoked with a name that came from a git config output with
\* surrounding white space
C1_Witness ==
    \E r \in Reqs :
        /\ CommitCallsOf(r) # {}
        /\ ~EnvSet("GIT_COMMITTER_NAME")
        /\ SettledWith(r, NameQuery, Resolved(" Bob Lee\t", ""))
        /\ EnvSet("GIT_COMMITTER_EMAIL")

(***************************************************************************)
(* C2                                                                      *)
(***************************************************************************)
\* C2 as stated: for each field independently, a set override means no config
\* query and the override as value; otherwise the field's query is invoked
\* (looked at once the request has been answered).
C2_AsStated ==
    \A r \in Reqs : (Handled(r) /\ inv[r].pc \in Terminal) =>
        /\ IF EnvSet("GIT_COMMITTER_NAME")
           THEN /\ ~Invoked(r, NameQuery)
                /\ inv[r].committerName = env.GIT_COMMITTER_NAME
           ELSE Invoked(r, NameQuery)
        /\ IF EnvSet("GIT_COMMITTER_EMAIL")
           THEN /\ ~Invoked(r, EmailQuery)
                /\ inv[r].committerEmail = env.GIT_COMMITTER_EMAIL
           ELSE Invoked(r, EmailQuery)

\* C2 (amended): a set override means the field's config query is never
\* invoked and the field, once resolved, has the override's value.  Without
\* the override the name query is invoked in every handled request, and the
\* email query is invoked exactly when the name has been resolved: a name
\* failure ends the request before the email is looked at.
C2_ShortCircuit ==
    \A r \in Reqs : Handled(r) =>
        /\ IF EnvSet("GIT_COMMITTER_NAME")
           THEN /\ ~Invoked(r, NameQuery)
                /\ inv[r].committerName = env.GIT_COMMITTER_NAME
           ELSE Invoked(r, NameQuery)
        /\ IF EnvSet("GIT_COMMITTER_EMAIL")
           THEN /\ ~Invoked(r, EmailQuery)
                /\ NameResolved(r) => inv[r].committerEmail = env.GIT_COMMITTER_EMAIL
           ELSE Invoked(r, EmailQuery) <=> NameResolved(r)

\* an answered request took the name from the environment without a query
\* and fell back to the config query for the email
C2_Witness ==
    \E r \in Reqs :
        /\ Handled(r) /\ inv[r].pc \in Terminal
        /\ EnvSet("GIT_COMMITTER_NAME") /\ ~Invoked(r, NameQuery)
        /\ ~EnvSet("GIT_COMMITTER_EMAIL") /\ Invoked(r, EmailQuery)

(***************************************************************************)
(* C3                                                                      *)
(***************************************************************************)
QueryFailed(r, query) ==
    \E i \in CallsOf(r, query) :
        i <= Len(inv[r].results) /\ ~inv[r].results[i].ok

\* C3: when a field's config query (made because the override is absent or
\* empty) fails, the request ends with a Failed response carrying
\* isError true, and git commit is never invoked for it.
C3_QueryFailureAborts ==
    \A r \in Reqs : \A query \in {NameQuery, EmailQuery} :
        QueryFailed(r, query) =>
            /\ inv[r].pc = "ResolutionFailed"
            /\ Len(inv[r].response) = 1 /\ inv[r].fault = <<>>
            /\ HasIsError(r) /\ ResponseOf(r).isError = TRUE
            /\ CommitCallsOf(r) = {}

\* the email query failed after the name had been read from git config
C3_Witness ==
    \E r \in Reqs :
        /\ QueryFailed(r, EmailQuery)
        /\ ~EnvSet("GIT_COMMITTER_NAME") /\ env.GIT_COMMITTER_EMAIL = Undefined

(***************************************************************************)
(* C4                                                                      *)
(***************************************************************************)
CommitFailedWithStderr(r, phrase) ==
    \E i \in CommitCallsOf(r) :
        /\ i <= Len(inv[r].results)
        /\ ~inv[r].results[i].ok
        /\ inv[r].results[i].error.stderr.t = "string"
        /\ Includes(inv[r].results[i].error.stderr.v, phrase)

\* C4: a failed git commit whose stderr contains "nothing to commit, working
\* tree clean" or "no changes added to commit" is answered as Skipped, with
\* isError false.
C4_NoOpIsSkipped ==
    \A r \in Reqs :
        \A phrase \in {"nothing to commit, working tree clean",
                       "no changes added to commit"} :
            CommitFailedWithStderr(r, phrase) =>
                /\ Skipped(r)
                /\ Len(inv[r].response) = 1
                /\ HasIsError(r) /\ ResponseOf(r).isError = FALSE

\* a commit failed with the second phrase on stderr
C4_Witness ==
    \E r \in Reqs :
        /\ CommitFailedWithStderr(r, "no changes added to commit")
        /\ ~CommitFailedWithStderr(r, "nothing to commit, working tree clean")

(***************************************************************************)
(* C5                                                                      *)
(***************************************************************************)
Answered(r) == Len(inv[r].response) > 0

\* C5 as stated: every structured response carries a boolean isError, false
\* for Success and Skipped, true for Failed.
C5_AsStated ==
    \A r \in Reqs : Answered(r) =>
        /\ HasIsError(r)
        /\ ResponseOf(r).isError \in BOOLEAN
        /\ ResponseOf(r).isError = Failed(r)
        /\ Success(r) \/ Skipped(r) \/ Failed(r)

\* C5 (amended): a Skipped response carries isError false and a Failed
\* response isError true; a Success response carries no isError field at
\* all, which the protocol reads as "no error".
C5_IsErrorByOutcome ==
    \A r \in Reqs : Answered(r) =>
        /\ Success(r) \/ Skipped(r) \/ Failed(r)
        /\ Success(r) => ~HasIsError(r)
        /\ Skipped(r) => HasIsError(r) /\ ResponseOf(r).isError = FALSE
        /\ Failed(r) => HasIsError(r) /\ ResponseOf(r).isError = TRUE

\* one request was answered Success and another Skipped
C5_Witness ==
    \E r, q \in Reqs : Answered(r) /\ Answered(q) /\ Success(r) /\ Skipped(q)

(***************************************************************************)
(* C6                                                                      *)
(***************************************************************************)
QueryBlank(r, query) ==
    \E i \in CallsOf(r, query) :
        /\ i <= Len(inv[r].results)
        /\ inv[r].results[i].ok
        /\ AllBlank(inv[r].results[i].stdout)

ResolutionFailure(r) ==
    \E query \in {NameQuery, EmailQuery} : QueryFailed(r, query) \/ QueryBlank(r, query)

\* C6: git commit is invoked at most once per request: once when both
\* identity fields have resolved, never when resolution failed, and a failed
\* commit is the last invocation of its request.
C6_CommitAtMostOnce ==
    \A r \in Reqs :
        /\ Cardinality(CommitCallsOf(r)) <= 1
        /\ (Handled(r) /\ NameResolved(r) /\ EmailResolved(r))
                => Cardinality(CommitCallsOf(r)) = 1
        /\ ResolutionFailure(r) => CommitCallsOf(r) = {}
        /\ \A i \in CommitCallsOf(r) :
                (i <= Len(inv[r].results) /\ ~inv[r].results[i].ok)
                    => i = Len(inv[r].calls)

\* a commit failed for a reason other than an empty index, and the request
\* was answered Failed
C6_Witness ==
    \E r \in Reqs :
        /\ inv[r].pc = "CommitFailed"
        /\ Cardinality(CommitCallsOf(r)) = 1

(***************************************************************************)
(* C7                                                                      *)
(***************************************************************************)
\* arguments not an object, message absent or not a string, or cwd present
\* and not a string
Malformed(args) ==
    \/ args.t # "object"
    \/ args.message.t # "string"
    \/ args.cwd.t \notin {"undefined", "string"}

\* C7: a commit_staged request with malformed arguments is rejected with an
\* invalid-params fault before any environment read or external invocation,
\* and is never answered with a structured response.
C7_MalformedRejected ==
    \A r \in Reqs :
        (inv[r].pc # "Start" /\ inv[r].request.name = "commit_staged"
            /\ Malformed(inv[r].request.arguments))
            => /\ inv[r].pc = "Rejected"
               /\ Len(inv[r].fault) = 1
               /\ inv[r].fault[1].class = "McpError"
               /\ inv[r].fault[1].code = "InvalidParams"
               /\ inv[r].envReads = {}
               /\ inv[r].calls = <<>>
               /\ inv[r].response = <<>>

\* a request whose cwd is a number was rejected
C7_Witness ==
    \E r \in Reqs :
        /\ inv[r].pc = "Rejected"
        /\ inv[r].request = [name |-> "commit_staged",
                             arguments |-> Obj(Str("fix bug"), Num(1))]

(***************************************************************************)
(* C8                                                                      *)
(***************************************************************************)
\* C8: when git commit succeeds the response text starts with
\* "Commit successful:", contains the captured stdout, and contains the
\* captured stderr introduced by "Stderr:" exactly when stderr is non-empty.
C8_SuccessText ==
    \A r \in Reqs : \A i \in CommitCallsOf(r) :
        (i <= Len(inv[r].results) /\ inv[r].results[i].ok) =>
            /\ Success(r) /\ Len(inv[r].response) = 1
            /\ StartsWith(TextOf(r), "Commit successful:")
            /\ Includes(TextOf(r), inv[r].results[i].stdout)
            /\ Includes(TextOf(r), "Stderr:\n" \o inv[r].results[i].stderr)
                    <=> inv[r].results[i].stderr # ""

\* one commit succeeded with a warning on stderr, another with none
C8_Witness ==
    \E r, q \in Reqs :
        /\ CommitSettledWith(r, Resolved("[main 1a2b3c4] fix bug", ""))
        /\ CommitSettledWith(q, Resolved("[main 1a2b3c4] fix bug",
                                         "warning: LF will be replaced by CRLF"))

(***************************************************************************)
(* C9                                                                      *)
(***************************************************************************)
BlankOutputFails(r, query, key, var) ==
    QueryBlank(r, query) =>
        /\ inv[r].pc = "ResolutionFailed"
        /\ Len(inv[r].response) = 1
        /\ HasIsError(r) /\ ResponseOf(r).isError = TRUE
        /\ Includes(TextOf(r), key)
        /\ Includes(TextOf(r), var)
        /\ CommitCallsOf(r) = {}

\* C9: a config query that succeeds with output that is empty after trimming
\* fails the resolution of its field: the response is Failed, its text names
\* the field's git configuration and its override variable, and git commit
\* is not invoked.
C9_BlankOutputFails ==
    \A r \in Reqs :
        /\ BlankOutputFails(r, NameQuery, "user.name", "GIT_COMMITTER_NAME")
        /\ BlankOutputFails(r, EmailQuery, "user.email", "GIT_COMMITTER_EMAIL")

\* one request got a blank name, another a blank email
C9_Witness ==
    \E r, q \in Reqs : QueryBlank(r, NameQuery) /\ QueryBlank(q, EmailQuery)

(***************************************************************************)
(* C10                                                                     *)
(***************************************************************************)
\* the directory the invocations of request r run in ("." for the process's
\* own working directory)
WorkingDirectory(r) ==
    LET c == PropCwd(inv[r].request.arguments)
    IN  IF c.t = "string" /\ c.v # "" THEN c.v ELSE "."

ConfigOutcome(r, query) ==
    [i \in {k \in CallsOf(r, query) : k <= Len(inv[r].results)} |-> inv[r].results[i]]

ResolutionOver(r) == Handled(r) /\ inv[r].pc \notin {"ResolvingName", "ResolvingEmail"}

AuthorsOf(r) == {inv[r].calls[i].args[4] : i \in CommitCallsOf(r)}

SameResolution(r, q) ==
    /\ inv[r].committerName = inv[q].committerName
    /\ inv[r].committerEmail = inv[q].committerEmail
    /\ AuthorsOf(r) = AuthorsOf(q)

SameInputs(r, q) ==
    /\ WorkingDirectory(r) = WorkingDirectory(q)
    /\ ConfigOutcome(r, NameQuery) = ConfigOutcome(q, NameQuery)
    /\ ConfigOutcome(r, EmailQuery) = ConfigOutcome(q, EmailQuery)

\* C10: two requests resolved with the same environment, the same config
\* query results and the same working directory resolve the same name and
\* email and build the same author string, and no step of a handler changes
\* the environment a later resolution reads.
C10_Deterministic ==
    /\ [](\A r, q \in Reqs :
            (ResolutionOver(r) /\ ResolutionOver(q) /\ SameInputs(r, q))
                => SameResolution(r, q))
    /\ [][env' = env]_vars

\* two requests resolved the same identity from git config and reached the
\* commit
C10_Witness ==
    \E r, q \in Reqs :
        /\ r # q
        /\ ResolutionOver(r) /\ ResolutionOver(q) /\ SameInputs(r, q)
        /\ AuthorsOf(r) = {"--author=Bob Lee (aider) <bob@x.io>"}
        /\ AuthorsOf(q) = AuthorsOf(r)

(***************************************************************************)
(* C11                                                                     *)
(***************************************************************************)
NameFailed(r) == QueryFailed(r, NameQuery) \/ QueryBlank(r, NameQuery)

EmailFailed(r) == QueryFailed(r, EmailQuery) \/ QueryBlank(r, EmailQuery)

EmailLookedAt(r) ==
    /\ "GIT_COMMITTER_EMAIL" \in inv[r].envReads
    /\ ~EnvSet("GIT_COMMITTER_EMAIL") => Invoked(r, EmailQuery)

\* C11 as stated: the two fields are resolved independently: after a name
\* failure the email is still resolved (its override consulted and, without
\* one, its query invoked), after an email failure the name is resolved, and
\* either failure means no commit.
C11_AsStated ==
    \A r \in Reqs :
        /\ (NameFailed(r) /\ inv[r].pc \in Terminal) => EmailLookedAt(r)
        /\ EmailFailed(r) => NameResolved(r)
        /\ (NameFailed(r) \/ EmailFailed(r)) => CommitCallsOf(r) = {}

\* C11 (amended): the fields are resolved in sequence, name first.  A name
\* failure ends the request at once: the email override is not read and the
\* email query is not invoked.  An email failure happens only after the name
\* has been resolved.  Either failure ends the request as ResolutionFailed
\* with no commit invocation.
C11_Sequential ==
    \A r \in Reqs :
        /\ NameFailed(r) =>
            /\ "GIT_COMMITTER_EMAIL" \notin inv[r].envReads
            /\ ~Invoked(r, EmailQuery)
            /\ inv[r].committerEmail = Undefined
        /\ EmailFailed(r) =>
            /\ NameResolved(r)
            /\ "GIT_COMMITTER_NAME" \in inv[r].envReads
            /\ inv[r].committerName.t = "string" /\ inv[r].committerName.v # ""
        /\ (NameFailed(r) \/ EmailFailed(r)) =>
            /\ inv[r].pc = "ResolutionFailed"
            /\ CommitCallsOf(r) = {}

\* one request failed on its name and another on its email
C11_Witness ==
    \E r, q \in Reqs : NameFailed(r) /\ EmailFailed(q) /\ NameResolved(q)

(***************************************************************************)
(* C12                                                                     *)
(***************************************************************************)
Phrases == {NothingToCommit, NoChangesAdded}

Mentions(x, phrase) == x.t = "string" /\ Includes(x.v, phrase)

\* the commit of request r failed and the stream `stream` it captured
\* contains one of the two phrases
CommitFailedMentioning(r, stream) ==
    \E i \in CommitCallsOf(r) : \E phrase \in Phrases :
        /\ i <= Len(inv[r].results)
        /\ ~inv[r].results[i].ok
        /\ Mentions(inv[r].results[i].error[stream], phrase)

SkippedAnswer(r) ==
    /\ Skipped(r)
    /\ Answered(r)
    /\ StartsWith(TextOf(r), "Git commit skipped: ")
    /\ HasIsError(r) /\ ResponseOf(r).isError = FALSE

FailedAnswer(r) ==
    /\ Failed(r)
    /\ Answered(r)
    /\ HasIsError(r) /\ ResponseOf(r).isError = TRUE

\* C12: whenever git commit fails and its captured stderr or its captured
\* stdout contains "nothing to commit, working tree clean" or "no changes
\* added to commit", the request is answered as Skipped; this includes a
\* phrase in stdout next to a non-empty stderr that does not contain it.
C12_AsStated ==
    \A r \in Reqs :
        (CommitFailedMentioning(r, "stderr") \/ CommitFailedMentioning(r, "stdout"))
            => SkippedAnswer(r)

\* what the handler does instead: only the first non-empty stream is searched,
\* so a phrase in stdout is seen only when stderr is empty
C12_FirstStreamOnly ==
    \A r \in Reqs : \A i \in CommitCallsOf(r) :
        (i <= Len(inv[r].results) /\ ~inv[r].results[i].ok) =>
            LET error == inv[r].results[i].error
            IN  /\ (\E phrase \in Phrases : Mentions(error.stderr, phrase))
                       => SkippedAnswer(r)
                /\ (/\ ~Truthy(error.stderr)
                    /\ \E phrase \in Phrases : Mentions(error.stdout, phrase))
                       => SkippedAnswer(r)
                /\ (/\ Truthy(error.stderr)
                    /\ \A phrase \in Phrases : ~Mentions(error.stderr, phrase))
                       => FailedAnswer(r) /\ TextOf(r) = "Git commit failed: " \o error.stderr.v

(***************************************************************************)
(* C13                                                                     *)
(***************************************************************************)
\* a config query of request r failed with a phrase in its stderr or stdout
QueryFailedMentioning(r) ==
    \E query \in {NameQuery, EmailQuery} : \E i \in CallsOf(r, query) :
        \E phrase \in Phrases : \E stream \in {"stderr", "stdout"} :
            /\ i <= Len(inv[r].results)
            /\ ~inv[r].results[i].ok
            /\ Mentions(inv[r].results[i].error[stream], phrase)

\* C13: a request whose identity resolution failed is answered as Failed
\* with isError true and never as Skipped, also when the failure detail of
\* the config query contains one of the two phrases, which then shows in the
\* text of the Failed response.
C13_ResolutionErrorIsFailed ==
    \A r \in Reqs : ResolutionFailure(r) =>
        /\ FailedAnswer(r)
        /\ inv[r].pc = "ResolutionFailed"
        /\ ~StartsWith(TextOf(r), "Git commit skipped: ")
        /\ \E field \in {"user.name", "user.email"} :
               Includes(TextOf(r), "Failed to get git " \o field \o ": ")
        /\ QueryFailedMentioning(r) =>
               \E phrase \in Phrases : Includes(TextOf(r), phrase)

\* a name query and an email query each failed with a phrase in the detail
C13_Witness ==
    \E r, q \in Reqs :
        /\ QueryFailedMentioning(r) /\ QueryFailed(r, NameQuery) /\ FailedAnswer(r)
        /\ QueryFailedMentioning(q) /\ QueryFailed(q, EmailQuery) /\ FailedAnswer(q)

(***************************************************************************)
(* C14                                                                     *)
(***************************************************************************)
NonEmpty(x) == x.t = "string" /\ x.v # ""

GenericFallback == "Unknown error during git commit."

\* the four-level chain of the claim
DiagnosticAsStated(error) ==
    IF NonEmpty(error.stderr) THEN error.stderr.v
    ELSE IF NonEmpty(error.stdout) THEN error.stdout.v
    ELSE IF NonEmpty(error.shortMessage) THEN error.shortMessage.v
    ELSE GenericFallback

\* the chain with the error's message before the fallback
Diagnostic(error) ==
    IF NonEmpty(error.stderr) THEN error.stderr.v
    ELSE IF NonEmpty(error.stdout) THEN error.stdout.v
    ELSE IF NonEmpty(error.shortMessage) THEN error.shortMessage.v
    ELSE IF NonEmpty(error.message) THEN error.message.v
    ELSE GenericFallback

\* the commit of request r failed with `error` and the answer is not Skipped
CommitFailedNotSkipped(r, error) ==
    /\ CommitSettledWith(r, Rejected(error))
    /\ Answered(r)
    /\ ~Skipped(r)

\* C14 as stated: the text of a Failed commit answer is "Git commit failed: "
\* followed by stderr if non-empty, else stdout if non-empty, else the short
\* summary if non-empty, else the generic fallback.
C14_AsStated ==
    \A r \in Reqs : \A res \in CommitResults :
        (~res.ok /\ CommitFailedNotSkipped(r, res.error)) =>
            TextOf(r) = "Git commit failed: " \o DiagnosticAsStated(res.error)

\* C14 (amended): the text of a Failed commit answer is "Git commit failed: "
\* followed by stderr if non-empty, else stdout if non-empty, else the short
\* summary if non-empty, else the error's message if non-empty, else the
\* generic fallback.
C14_FailedText ==
    \A r \in Reqs : \A res \in CommitResults :
        (~res.ok /\ CommitFailedNotSkipped(r, res.error)) =>
            /\ FailedAnswer(r)
            /\ TextOf(r) = "Git commit failed: " \o Diagnostic(res.error)

\* one commit failed with only stdout to report, another with only a message
C14_Witness ==
    \E r, q \in Reqs : \E e, f \in {res.error : res \in {x \in CommitResults : ~x.ok}} :
        /\ CommitFailedNotSkipped(r, e)
        /\ ~NonEmpty(e.stderr) /\ NonEmpty(e.stdout)
        /\ CommitFailedNotSkipped(q, f)
        /\ ~NonEmpty(f.stderr) /\ ~NonEmpty(f.stdout) /\ ~NonEmpty(f.shortMessage)
        /\ NonEmpty(f.message)

(***************************************************************************)
(* C15                                                                     *)
(***************************************************************************)
ResolvingIdentity == {"ResolvingName", "ResolvingEmail"}

HandledTerminal == Terminal \ {"Rejected"}

\* the states that can follow each state of a request; resolution that needs
\* no query and the step from IdentityResolved to Committing take no await
Successors(pc) ==
    CASE pc = "Start" -> {"Rejected"} \cup ResolvingIdentity \cup {"Committing"}
      [] pc = "ResolvingName" -> {"ResolutionFailed", "ResolvingEmail", "Committing"}
      [] pc = "ResolvingEmail" -> {"ResolutionFailed", "Committing"}
      [] pc = "Committing" -> {"CommitSucceeded", "CommitSkipped", "CommitFailed"}
      [] OTHER -> {}

IdentityResolved(r) ==
    /\ NameResolved(r) /\ NonEmpty(inv[r].committerName)
    /\ EmailResolved(r) /\ NonEmpty(inv[r].committerEmail)

OneResponse(r) ==
    /\ Len(inv[r].response) = 1
    /\ inv[r].fault = <<>>
    /\ CASE inv[r].pc \in {"ResolutionFailed", "CommitFailed"} ->
                HasIsError(r) /\ ResponseOf(r).isError = TRUE
         [] inv[r].pc = "CommitSkipped" ->
                /\ HasIsError(r) /\ ResponseOf(r).isError = FALSE
                /\ StartsWith(TextOf(r), "Git commit skipped: ")
         [] inv[r].pc = "CommitSucceeded" ->
                /\ StartsWith(TextOf(r), "Commit successful:\n")
                /\ HasIsError(r) => ResponseOf(r).isError = FALSE

C15_Shape ==
    \A r \in Reqs :
        /\ inv[r].pc \in {"Start"} \cup ResolvingIdentity \cup {"Committing"} \cup Terminal
        /\ (inv[r].pc = "Committing" \/ CommitCallsOf(r) # {}) => IdentityResolved(r)
        /\ inv[r].pc \in HandledTerminal => OneResponse(r)
        /\ (Handled(r) /\ inv[r].pc \notin HandledTerminal) => inv[r].response = <<>>

C15_Moves ==
    \A r \in Reqs :
        /\ inv'[r].pc # inv[r].pc => inv'[r].pc \in Successors(inv[r].pc)
        /\ inv[r].pc \in Terminal => inv'[r] = inv[r]

\* C15: a request that passed validation moves Start -> ResolvingIdentity ->
\* {ResolutionFailed | IdentityResolved} -> Committing -> {CommitSucceeded |
\* CommitSkipped | CommitFailed}; Committing is entered only with both fields
\* resolved; given that every external invocation settles, the request reaches
\* one terminal state, stays there, and has returned exactly one response:
\* Failed for ResolutionFailed and CommitFailed, Skipped for CommitSkipped,
\* Success for CommitSucceeded.
C15_StateMachine ==
    /\ []C15_Shape
    /\ [][C15_Moves]_vars
    /\ \A r \in Reqs :
        (Handled(r)) ~> (inv[r].pc \in HandledTerminal /\ OneResponse(r))

\* every terminal state of a handled request is being occupied or was left
\* behind: one request ended ResolutionFailed after an email query and
\* another ended after its commit
C15_Witness ==
    \E r, q \in Reqs :
        /\ inv[r].pc = "ResolutionFailed" /\ Len(inv[r].calls) = 2 /\ OneResponse(r)
        /\ inv[q].pc \in {"CommitSucceeded", "CommitSkipped", "CommitFailed"}
        /\ Len(inv[q].calls) = 3 /\ OneResponse(q)

(***************************************************************************)
(* C16                                                                     *)
(***************************************************************************)
\* C16: whenever git commit is invoked, the name and the email the request
\* resolved are both non-empty strings, from the environment or from git
\* config alike, and they are the ones in the --author argument.
C16_IdentityNonEmpty ==
    \A r \in Reqs : \A i \in CommitCallsOf(r) :
        /\ NonEmpty(inv[r].committerName)
        /\ NonEmpty(inv[r].committerEmail)
        /\ inv[r].calls[i].args[4] =
               "--author=" \o inv[r].committerName.v \o " (aider) <"
                           \o inv[r].committerEmail.v \o ">"
        /\ Len(inv[r].calls[i].args[4]) > Len("--author= (aider) <>") + 1

\* a commit was invoked with the name taken from git config and the email
\* from the environment, next to an empty GIT_COMMITTER_NAME
C16_Witness ==
    \E r \in Reqs :
        /\ CommitCallsOf(r) # {}
        /\ env.GIT_COMMITTER_NAME = Str("")
        /\ Invoked(r, NameQuery)
        /\ EnvSet("GIT_COMMITTER_EMAIL")

(***************************************************************************)
(* C17                                                                     *)
(***************************************************************************)
\* the directory an invocation runs in: the cwd option, or the process's own
\* working directory (".") when the options carry none
RunsIn(call) ==
    IF call.options.cwd = Undefined THEN "." ELSE call.options.cwd.v

\* C17: every external invocation of a request (git config user.name, git
\* config user.email, git commit) runs in one directory: the request's cwd
\* when supplied, otherwise the process's working directory; a cwd supplied
\* as the empty string counts as not supplied.
C17_OneWorkingDirectory ==
    \A r \in Reqs : \A i \in DOMAIN inv[r].calls :
        /\ RunsIn(inv[r].calls[i]) = WorkingDirectory(r)
        /\ DOMAIN inv[r].calls[i].options = {"cwd"}
        /\ PropCwd(inv[r].request.arguments) \in {Undefined, Str("")}
               => inv[r].calls[i].options.cwd = Undefined

\* one request with cwd "" and one with cwd "/repo" have each made all three
\* invocations
C17_Witness ==
    \E r, q \in Reqs :
        /\ PropCwd(inv[r].request.arguments) = Str("")
        /\ Len(inv[r].calls) = 3
        /\ PropCwd(inv[q].request.arguments) = Str("/repo")
        /\ Len(inv[q].calls) = 3

(***************************************************************************)
(* C18                                                                     *)
(***************************************************************************)
\* C18: git commit is invoked as the program git with exactly the four
\* arguments commit, -m, the request's message, --author=<author string>;
\* the third argument equals the message as received, whatever string it is,
\* and no shell is asked to interpret the arguments.
C18_MessageVerbatim ==
    \A r \in Reqs : \A i \in CommitCallsOf(r) :
        LET call == inv[r].calls[i]
        IN  /\ call.file = "git"
            /\ Len(call.args) = 4
            /\ call.args[1] = "commit"
            /\ call.args[2] = "-m"
            /\ Str(call.args[3]) = PropMessage(inv[r].request.arguments)
            /\ call.args[4] = "--author=" \o authorString(inv[r].committerName.v,
                                                          inv[r].committerEmail.v)
            /\ "shell" \notin DOMAIN call.options

\* a message holding a blank and an empty message have both been committed
C18_Witness ==
    \E r, q \in Reqs :
        /\ CommitCallsOf(r) # {}
        /\ PropMessage(inv[r].request.arguments) = Str("fix bug")
        /\ CommitCallsOf(q) # {}
        /\ PropMessage(inv[q].request.arguments) = Str("")

(***************************************************************************)
(* C19                                                                     *)
(***************************************************************************)
\* request r got as far as identity resolution
ReachedResolution(r) ==
    Handled(r) \/ inv[r].envReads # {} \/ inv[r].calls # <<>>

Delivered(r) == inv[r].pc # "Start"

MessageOf(r) == PropMessage(inv[r].request.arguments)

\* C19 as stated: every request that reaches identity resolution or commit
\* has a non-empty message; a request with the empty message is a caller
\* error and makes no external invocation.
C19_AsStated ==
    \A r \in Reqs :
        /\ ReachedResolution(r) => NonEmpty(MessageOf(r))
        /\ (Delivered(r) /\ MessageOf(r) = Str("")) =>
               inv[r].pc = "Rejected" /\ inv[r].calls = <<>>

\* C19 (amended): every request that reaches identity resolution or commit
\* has a string message, which may be empty.  A commit_staged request whose
\* message is absent or not a string is a caller error and makes no external
\* invocation; one whose message is the empty string is handled like any
\* other and, once the identity is resolved, committed with -m "".
C19_StringMessage ==
    \A r \in Reqs :
        /\ ReachedResolution(r) => MessageOf(r).t = "string"
        /\ (/\ Delivered(r)
            /\ inv[r].request.name = "commit_staged"
            /\ MessageOf(r).t # "string") =>
               /\ inv[r].pc = "Rejected"
               /\ inv[r].calls = <<>>
               /\ inv[r].envReads = {}
        /\ (/\ Delivered(r)
            /\ inv[r].request.name = "commit_staged"
            /\ MessageOf(r) = Str("")
            /\ PropCwd(inv[r].request.arguments).t \in {"undefined", "string"}) =>
               /\ Handled(r)
               /\ "GIT_COMMITTER_NAME" \in inv[r].envReads
               /\ \A i \in CommitCallsOf(r) : inv[r].calls[i].args[3] = ""

\* a request with the empty message has had git commit invoked
C19_Witness ==
    \E r \in Reqs :
        /\ MessageOf(r) = Str("")
        /\ \E i \in CommitCallsOf(r) : inv[r].calls[i].args[3] = ""

(***************************************************************************)
(* C20                                                                     *)
(***************************************************************************)
\* the handler resumed with the result of the invocation it awaits
Resume(st, res) ==
    CASE st.pc = "ResolvingName" -> NameReturn(st, res)
      [] st.pc = "ResolvingEmail" -> EmailReturn(st, res)
      [] st.pc = "Committing" -> CommitReturn(st, res)
      [] OTHER -> st

RECURSIVE ResumeAll(_, _, _)
ResumeAll(st, results, k) ==
    IF k > Len(results) THEN st
    ELSE ResumeAll(Resume(st, results[k]), results, k + 1)

\* one request handled with nothing else going on, its invocations settling
\* with `results` in turn
HandledAlone(request, results) == ResumeAll(CallTool(Start, request), results, 1)

C20_OwnState ==
    \A r \in Reqs :
        /\ Delivered(r) => inv[r] = HandledAlone(inv[r].request, inv[r].results)
        /\ \A i \in DOMAIN inv[r].calls :
               RunsIn(inv[r].calls[i]) = WorkingDirectory(r)
        /\ \A i \in CommitCallsOf(r) :
               /\ Str(inv[r].calls[i].args[3]) = MessageOf(r)
               /\ \E n \in Candidates(r, "GIT_COMMITTER_NAME", NameQuery) :
                  \E e \in Candidates(r, "GIT_COMMITTER_EMAIL", EmailQuery) :
                      inv[r].calls[i].args[4] = "--author=" \o authorString(n, e)

C20_OwnStep ==
    /\ env' = env
    /\ \A r, q \in Reqs : (r # q /\ inv'[r] # inv[r]) => inv'[q] = inv[q]

\* C20: requests whose handling interleaves share no mutable state: a step
\* of one request changes nothing of another and nothing of the environment;
\* the author string of a request is built from the identity resolved in that
\* request, its invocations use its own cwd and message, and what it has done
\* and answered is what it does and answers when handled alone with the same
\* environment and the same results of its invocations.
C20_Isolation == []C20_OwnState /\ [][C20_OwnStep]_vars

\* the second request, with another cwd and message than the first, has been
\* handled through to the end of its commit while the first, delivered before
\* it, has its name and still awaits its email query
C20_Witness ==
    \E r, q \in Reqs :
        /\ r < q
        /\ inv[r].pc = "ResolvingEmail" /\ Len(inv[r].results) = 1
        /\ inv[q].pc \in HandledTerminal /\ Len(inv[q].results) = 3
        /\ MessageOf(r) # MessageOf(q)
        /\ WorkingDirectory(r) # WorkingDirectory(q)

(***************************************************************************)
(* C21                                                                     *)
(***************************************************************************)
Hung(r) == inv[r].pc \in {HungAt(pc) : pc \in Awaiting}

\* request q can be taken up: delivered if it is the next to be delivered,
\* resumed if the invocation it awaits returns
CanProceed(q) ==
    /\ (inv[q].pc = "Start" /\ \A p \in Reqs : p < q => inv[p].pc # "Start")
           => ENABLED HandleCallTool(q)
    /\ inv[q].pc = "ResolvingName" => ENABLED NameQuerySettles(q)
    /\ inv[q].pc = "ResolvingEmail" => ENABLED EmailQuerySettles(q)
    /\ inv[q].pc = "Committing" => ENABLED CommitSettles(q)

C21_NotBlocked ==
    \A r, q \in Reqs : (r # q /\ Hung(r)) => CanProceed(q)

C21_HungForGood ==
    \A r \in Reqs : Hung(r) =>
        /\ inv'[r] = inv[r]
        /\ inv[r].response = <<>>

\* C21: a config query or commit invocation that never returns blocks only
\* its own request: that request stays suspended without a response, while
\* every other request can still be delivered and resumed, and, its own
\* invocations returning, is eventually answered.
C21_HangIsLocal ==
    /\ []C21_NotBlocked
    /\ [][C21_HungForGood]_vars
    /\ \A r, q \in Reqs :
        (r # q /\ Hung(r) /\ Handled(q)) ~> (Hung(q) \/ (Answered(q) /\ inv[q].pc \in Terminal))

\* the first request hangs in its name query and the second, delivered after
\* it, has been through its three invocations and is answered
C21_Witness ==
    \E r, q \in Reqs :
        /\ r < q
        /\ inv[r].pc = HungAt("ResolvingName")
        /\ inv[q].pc \in {"CommitSucceeded", "CommitSkipped", "CommitFailed"}
        /\ Len(inv[q].results) = 3
        /\ Answered(q)

(***************************************************************************)
(* C22                                                                     *)
(***************************************************************************)
\* the commit of request r failed without any captured output
CommitFailedSilently(r) ==
    \E i \in CommitCallsOf(r) :
        /\ i <= Len(inv[r].results)
        /\ ~inv[r].results[i].ok
        /\ ~NonEmpty(inv[r].results[i].error.stderr)
        /\ ~NonEmpty(inv[r].results[i].error.stdout)

\* C22: a request is answered as Skipped only when the stderr or the stdout
\* captured from its failed git commit contains "nothing to commit, working
\* tree clean" or "no changes added to commit"; a commit that failed with
\* both streams empty is answered as Failed, whatever the summary or the
\* message of the error contains.
C22_AsStated ==
    \A r \in Reqs :
        /\ (Skipped(r) \/ (Answered(r) /\ StartsWith(TextOf(r), "Git commit skipped: ")))
               => (CommitFailedMentioning(r, "stderr") \/ CommitFailedMentioning(r, "stdout"))
        /\ (CommitFailedSilently(r) /\ Answered(r)) => FailedAnswer(r)

\* what the handler does instead: the phrases are looked for in the first
\* non-empty of stderr, stdout, summary and message, so that without captured
\* output a phrase in the summary makes the answer Skipped
C22_FirstNonEmptyText ==
    \A r \in Reqs : \A i \in CommitCallsOf(r) :
        (i <= Len(inv[r].results) /\ ~inv[r].results[i].ok) =>
            LET text == Diagnostic(inv[r].results[i].error)
            IN  IF \E phrase \in Phrases : Includes(text, phrase)
                THEN SkippedAnswer(r) /\ TextOf(r) = "Git commit skipped: " \o text
                ELSE FailedAnswer(r) /\ TextOf(r) = "Git commit failed: " \o text

=============================================================================
